---- MODULE Spec2Model ----
(***************************************************************************)
(* Sovereign Doc: the conversion core (sovereign_doc_core.py) and the      *)
(* command line front end (sovereign_doc_cli.py) as state machines.        *)
(*                                                                         *)
(* A Python str is a sequence of one-character strings, so that strip,     *)
(* split, splitlines, count and replace are computed character by          *)
(* character the way the interpreter computes them.                        *)
(***************************************************************************)
EXTENDS Integers, Sequences, FiniteSets, TLC

VARIABLES
    fs,        \* the file system: existing path -> directory or file content
    log,       \* sovereign_doc_log.csv: whether it exists, and its rows
    logged,    \* ghost: the records of the calls whose log write went through
    last,      \* the last convert_any call: arguments, outcome, steps taken
    ncalls,    \* number of convert_any calls made so far
    cli,       \* the command line run: position, file list, attempts, exit code
    txt,       \* pure-function harness: the input text
    mid,       \* pure-function harness: the intermediate text
    out,       \* pure-function harness: the output
    phase      \* pure-function harness: which step comes next

vars == <<fs, log, logged, last, ncalls, cli, txt, mid, out, phase>>

(***************************************************************************)
(* Characters                                                              *)
(***************************************************************************)
NL == "\n"
CR == "\r"
SP == " "
\* the bullet glyph U+2022, one character
BULLET == "u2022"

\* str.isspace() on the characters the model uses
IsSpace(c) == c \in {SP, NL, CR, "\t"}

UpperChars == <<"A", "B", "C", "D", "H", "L", "M", "O", "T", "X">>
LowerChars == <<"a", "b", "c", "d", "h", "l", "m", "o", "t", "x">>
DigitChars == <<"0", "1", "2", "3", "4", "5", "6", "7", "8", "9">>

Range(f) == {f[i] : i \in DOMAIN f}

\* str.isupper() of one character
IsUpperChar(c) == c \in Range(UpperChars)

IsDigitChar(c) == c \in Range(DigitChars)

\* str.lower() of one character
LowerChar(c) ==
    IF \E i \in DOMAIN UpperChars : UpperChars[i] = c
    THEN LowerChars[CHOOSE i \in DOMAIN UpperChars : UpperChars[i] = c]
    ELSE c

\* str.lower()
Lower(s) == [i \in DOMAIN s |-> LowerChar(s[i])]

(***************************************************************************)
(* str operations                                                          *)
(***************************************************************************)
Drop(s, n) == SubSeq(s, n + 1, Len(s))

Take(s, n) == SubSeq(s, 1, n)

StartsWith(s, p) == Len(s) >= Len(p) /\ Take(s, Len(p)) = p

EndsWith(s, p) == Len(s) >= Len(p) /\ Drop(s, Len(s) - Len(p)) = p

StartsWithAny(s, ps) == \E p \in ps : StartsWith(s, p)

\* s.lstrip(chars): drop the leading characters that are in cs
RECURSIVE LStripChars(_, _)
LStripChars(s, cs) ==
    IF s # <<>> /\ Head(s) \in cs THEN LStripChars(Tail(s), cs) ELSE s

RECURSIVE RStripChars(_, _)
RStripChars(s, cs) ==
    IF s # <<>> /\ s[Len(s)] \in cs THEN RStripChars(Take(s, Len(s) - 1), cs) ELSE s

Whitespace == {SP, NL, CR, "\t"}

LStrip(s) == LStripChars(s, Whitespace)

RStrip(s) == RStripChars(s, Whitespace)

Strip(s) == LStrip(RStrip(s))

\* sep.join(parts)
RECURSIVE Join(_, _)
Join(parts, sep) ==
    IF parts = <<>> THEN <<>>
    ELSE IF Len(parts) = 1 THEN parts[1]
    ELSE parts[1] \o sep \o Join(Tail(parts), sep)

\* s.splitlines(): a line ends at "\n", "\r" or "\r\n"; no empty last line
RECURSIVE SplitLinesFrom(_, _)
SplitLinesFrom(s, cur) ==
    IF s = <<>> THEN (IF cur = <<>> THEN <<>> ELSE <<cur>>)
    ELSE IF Head(s) = CR /\ Len(s) >= 2 /\ s[2] = NL
         THEN <<cur>> \o SplitLinesFrom(Drop(s, 2), <<>>)
    ELSE IF Head(s) \in {NL, CR}
         THEN <<cur>> \o SplitLinesFrom(Tail(s), <<>>)
    ELSE SplitLinesFrom(Tail(s), Append(cur, Head(s)))

SplitLines(s) == SplitLinesFrom(s, <<>>)

\* s.split(): the maximal runs of non-whitespace characters
RECURSIVE SplitWordsFrom(_, _)
SplitWordsFrom(s, cur) ==
    IF s = <<>> THEN (IF cur = <<>> THEN <<>> ELSE <<cur>>)
    ELSE IF IsSpace(Head(s))
         THEN (IF cur = <<>> THEN <<>> ELSE <<cur>>) \o SplitWordsFrom(Tail(s), <<>>)
    ELSE SplitWordsFrom(Tail(s), Append(cur, Head(s)))

SplitWords(s) == SplitWordsFrom(s, <<>>)

\* s.split(maxsplit=1): the first word and the rest with its leading whitespace
\* dropped (trailing whitespace kept); fewer parts when there is no rest
SplitFirstWord(s) ==
    LET t == LStrip(s)
        n == Len(t)
        k == IF \E i \in 1..n : IsSpace(t[i])
             THEN (CHOOSE i \in 1..n : IsSpace(t[i]) /\ \A j \in 1..(i - 1) : ~IsSpace(t[j]))
             ELSE n + 1
        rest == LStrip(Drop(t, k - 1))
    IN  IF t = <<>> THEN <<>>
        ELSE IF rest = <<>> THEN <<Take(t, k - 1)>>
        ELSE <<Take(t, k - 1), rest>>

\* s.split(sep) for a non-empty sep: left to right, without overlap
RECURSIVE SplitOnFrom(_, _, _)
SplitOnFrom(s, sep, cur) ==
    IF s = <<>> THEN <<cur>>
    ELSE IF StartsWith(s, sep)
         THEN <<cur>> \o SplitOnFrom(Drop(s, Len(sep)), sep, <<>>)
    ELSE SplitOnFrom(Tail(s), sep, Append(cur, Head(s)))

SplitOn(s, sep) == SplitOnFrom(s, sep, <<>>)

\* s.count(sub): occurrences left to right, without overlap
RECURSIVE Count(_, _)
Count(s, sub) ==
    IF Len(s) < Len(sub) THEN 0
    ELSE IF StartsWith(s, sub) THEN 1 + Count(Drop(s, Len(sub)), sub)
    ELSE Count(Tail(s), sub)

\* s.replace(c, rep) for a one-character c
RECURSIVE ReplaceChar(_, _, _)
ReplaceChar(s, c, rep) ==
    IF s = <<>> THEN <<>>
    ELSE (IF Head(s) = c THEN rep ELSE <<Head(s)>>) \o ReplaceChar(Tail(s), c, rep)

\* s.isdigit(): non-empty and all digits
IsDigits(s) == s # <<>> /\ \A i \in DOMAIN s : IsDigitChar(s[i])

\* [p.strip() for p in parts if p.strip()]
RECURSIVE SelectStrip(_)
SelectStrip(parts) ==
    IF parts = <<>> THEN <<>>
    ELSE (IF Strip(Head(parts)) # <<>> THEN <<Strip(Head(parts))>> ELSE <<>>)
         \o SelectStrip(Tail(parts))

TwoNL == <<NL, NL>>

(***************************************************************************)
(* Plain-text heuristics                                                   *)
(***************************************************************************)
BulletGlyphs == {BULLET, "-", "*"}

MaxHeadingWords == 8

Max(a, b) == IF a >= b THEN a ELSE b

Min(a, b) == IF a <= b THEN a ELSE b

\* one line of txt_to_markdown
TxtLineToMd(line) ==
    LET stripped == Strip(line)
        words == SplitWords(stripped)
        upperish == Cardinality({i \in DOMAIN words : IsUpperChar(words[i][1])})
    IN  IF stripped = <<>> THEN <<>>
        ELSE IF /\ 1 <= Len(words) /\ Len(words) <= MaxHeadingWords
                /\ upperish >= Max(1, Len(words) \div 2)
             THEN <<"#", SP>> \o stripped
        ELSE IF stripped[1] \in BulletGlyphs
             THEN <<"-", SP>> \o Strip(LStripChars(stripped, BulletGlyphs))
        ELSE stripped

\* txt_to_markdown without the md_lines.append("") of a blank line
txt_to_markdown_skip_blank(text) ==
    LET lines == SplitLines(text)
        md_lines == [i \in DOMAIN lines |-> TxtLineToMd(lines[i])]
        kept == SelectSeq(md_lines, LAMBDA l : l # <<>>)
    IN  RStrip(Join(kept, <<NL>>)) \o <<NL>>

txt_to_markdown(text) ==
    LET lines == SplitLines(text)
        md_lines == [i \in DOMAIN lines |-> TxtLineToMd(lines[i])]
    IN  RStrip(Join(md_lines, <<NL>>)) \o <<NL>>

_html_escape(s) ==
    ReplaceChar(ReplaceChar(ReplaceChar(s, "&", <<"&", "a", "m", "p", ";">>),
                            "<", <<"&", "l", "t", ";">>),
                ">", <<"&", "g", "t", ";">>)

HtmlHead == <<"<", "!", "D", "O", "C", "T", "Y", "P", "E", SP, "h", "t", "m", "l", ">">>
HtmlOpen == <<"<", "h", "t", "m", "l", ">">>
HtmlClose == <<"<", "/", "h", "t", "m", "l", ">">>
BodyOpen == <<"<", "b", "o", "d", "y", ">">>
BodyClose == <<"<", "/", "b", "o", "d", "y", ">">>
UlOpen == <<"<", "u", "l", ">">>
UlClose == <<"<", "/", "u", "l", ">">>

Tag(name, inner) ==
    <<"<">> \o name \o <<">">> \o inner \o <<"<", "/">> \o name \o <<">">>

text_to_html(text) ==
    LET paragraphs == SelectStrip(SplitOn(text, TwoNL))
        parts == <<HtmlHead, HtmlOpen, BodyOpen>>
                 \o [i \in DOMAIN paragraphs |-> Tag(<<"p">>, _html_escape(paragraphs[i]))]
                 \o <<BodyClose, HtmlClose>>
    IN  Join(parts, <<NL>>) \o <<NL>>

(***************************************************************************)
(* Markdown heuristics                                                     *)
(***************************************************************************)
ListMarkers == {<<"-", SP>>, <<"*", SP>>, <<"+", SP>>}

\* close_list(): the lines it appends
close_list(in_list) == IF in_list THEN <<UlClose>> ELSE <<>>

\* the loop body of markdown_to_html: the html lines one line adds, and in_list after
MdLineToHtml(line, in_list) ==
    LET stripped == Strip(line)
    IN  IF stripped = <<>>
        THEN [add |-> close_list(in_list), in_list |-> FALSE]
        ELSE IF StartsWith(stripped, <<"#", "#", "#", SP>>)
        THEN [add |-> close_list(in_list)
                      \o <<Tag(<<"h", "3">>, _html_escape(Strip(Drop(stripped, 4))))>>,
              in_list |-> FALSE]
        ELSE IF StartsWith(stripped, <<"#", "#", SP>>)
        THEN [add |-> close_list(in_list)
                      \o <<Tag(<<"h", "2">>, _html_escape(Strip(Drop(stripped, 3))))>>,
              in_list |-> FALSE]
        ELSE IF StartsWith(stripped, <<"#", SP>>)
        THEN [add |-> close_list(in_list)
                      \o <<Tag(<<"h", "1">>, _html_escape(Strip(Drop(stripped, 2))))>>,
              in_list |-> FALSE]
        ELSE IF StartsWithAny(stripped, ListMarkers)
        THEN [add |-> (IF in_list THEN <<>> ELSE <<UlOpen>>)
                      \o <<Tag(<<"l", "i">>, _html_escape(Strip(Drop(stripped, 2))))>>,
              in_list |-> TRUE]
        ELSE [add |-> close_list(in_list) \o <<Tag(<<"p">>, _html_escape(stripped))>>,
              in_list |-> FALSE]

RECURSIVE MdLoop(_, _, _)
MdLoop(lines, html_lines, in_list) ==
    IF lines = <<>> THEN [html_lines |-> html_lines, in_list |-> in_list]
    ELSE LET r == MdLineToHtml(Head(lines), in_list)
         IN  MdLoop(Tail(lines), html_lines \o r.add, r.in_list)

\* the close_list() call after the loop
MdFinalCloseMissing(in_list) == <<>>

MdFinalClose(in_list) == close_list(in_list)

\* html_lines of markdown_to_html, before the document shell is put around them
MdHtmlLines(md) ==
    LET r == MdLoop(SplitLines(md), <<>>, FALSE)
    IN  r.html_lines \o MdFinalClose(r.in_list)

markdown_to_html(md) ==
    HtmlHead \o <<NL>> \o HtmlOpen \o <<NL>> \o BodyOpen \o <<NL>>
    \o Join(MdHtmlLines(md), <<NL>>)
    \o <<NL>> \o BodyClose \o <<NL>> \o HtmlClose \o <<NL>>

\* one line of markdown_to_plain_text
MdLineToPlain(line) ==
    LET stripped == LStrip(line)
        parts == SplitFirstWord(stripped)
    IN  IF StartsWith(stripped, <<"#">>)
        THEN Strip(LStripChars(stripped, {"#"}))
        ELSE IF StartsWithAny(stripped, ListMarkers)
        THEN Strip(Drop(stripped, 2))
        ELSE IF /\ parts # <<>>
                /\ IsDigits(RStripChars(parts[1], {"."}))
                /\ Len(parts) = 2
             THEN Strip(parts[2])
        ELSE stripped

markdown_to_plain_text(md) ==
    LET lines == SplitLines(md)
        outl == [i \in DOMAIN lines |-> MdLineToPlain(lines[i])]
    IN  Strip(Join(outl, <<NL>>)) \o <<NL>>

(***************************************************************************)
(* Quality scorer.  The score is a rational: _compute_omega_score gives    *)
(* its numerator over ScoreDen, so 0.012 is 60000 over 5000000.            *)
(***************************************************************************)
TXT == <<"t", "x", "t">>
MD == <<"m", "d">>
HTML == <<"h", "t", "m", "l">>
DOCX == <<"d", "o", "c", "x">>

LengthCap == 10000
StructCap == 50
WeightLength == 4
WeightStructure == 6
WeightDen == 10

ScoreDen == WeightDen * LengthCap * StructCap

ScoreMdMarkers == {<<"-", SP>>, <<"*", SP>>, <<"1", ".", SP>>}

\* paras of _compute_omega_score
ScoreParasNoPlusOne(converted) == Count(converted, TwoNL)

ScoreParas(converted) == Count(converted, TwoNL) + 1

\* the structure count that is divided by 50.0: headings + lists, or paras
StructureCount(converted, dst_fmt) ==
    IF dst_fmt = MD
    THEN LET lines == SplitLines(converted)
             headings == Cardinality({i \in DOMAIN lines :
                                        StartsWith(LStrip(lines[i]), <<"#">>)})
             lists == Cardinality({i \in DOMAIN lines :
                                     StartsWithAny(LStrip(lines[i]), ScoreMdMarkers)})
         IN  headings + lists
    ELSE IF dst_fmt \in {HTML, DOCX} THEN ScoreParas(converted)
    ELSE 0

_compute_omega_score(converted, dst_fmt) ==
    LET chars_out == Len(converted)
        length_num == Min(chars_out, LengthCap) * StructCap
        structure_num == Min(StructureCount(converted, dst_fmt), StructCap) * LengthCap
    IN  Max(0, Min(WeightLength * length_num + WeightStructure * structure_num, ScoreDen))

(***************************************************************************)
(* Paths (pathlib).  A path is its directory and its file name; the name   *)
(* is a str, so suffix, stem and with_suffix find the last dot as          *)
(* PurePath does.                                                          *)
(***************************************************************************)
Path(dir, name) == [dir |-> dir, name |-> name]

NoPath == Path(<<>>, <<>>)

\* name.rfind("."), counted from 1; 0 when there is no dot
LastDot(name) ==
    IF \E i \in DOMAIN name : name[i] = "."
    THEN CHOOSE i \in DOMAIN name :
            name[i] = "." /\ \A j \in DOMAIN name : name[j] = "." => j <= i
    ELSE 0

\* PurePath.suffix: from the last dot, unless the dot is first or last in the name
Suffix(name) ==
    IF LastDot(name) > 1 /\ LastDot(name) < Len(name)
    THEN Drop(name, LastDot(name) - 1)
    ELSE <<>>

\* PurePath.stem
Stem(name) == Take(name, Len(name) - Len(Suffix(name)))

\* PurePath.with_suffix(suffix)
with_suffix(name, suffix) == Stem(name) \o suffix

\* str(counter)
RECURSIVE Decimal(_)
Decimal(n) ==
    IF n < 10 THEN <<DigitChars[n + 1]>>
    ELSE Decimal(n \div 10) \o <<DigitChars[(n % 10) + 1]>>

\* Path.exists()
Exists(fsx, p) == p \in DOMAIN fsx

\* Path.is_file()
IsFile(fsx, p) == p \in DOMAIN fsx /\ fsx[p].kind = "file"

\* Path.is_dir()
IsDir(fsx, p) == p \in DOMAIN fsx /\ fsx[p].kind = "dir"

\* base_path.with_name(f"{base_path.stem} ({counter}){base_path.suffix}")
Numbered(base_path, counter) ==
    [base_path EXCEPT !.name = Stem(base_path.name) \o <<SP, "(">> \o Decimal(counter)
                               \o <<")">> \o Suffix(base_path.name)]

\* the while loop of _unique_path
RECURSIVE UniqueLoop(_, _, _, _)
UniqueLoop(fsx, base_path, candidate, counter) ==
    IF Exists(fsx, candidate)
    THEN UniqueLoop(fsx, base_path, Numbered(base_path, counter), counter + 1)
    ELSE candidate

\* _unique_path without the exists() test
_unique_path_no_test(fsx, base_path) == base_path

_unique_path(fsx, base_path) == UniqueLoop(fsx, base_path, base_path, 1)

(***************************************************************************)
(* File contents.  A file holds text (valid UTF-8), a zip container, or    *)
(* other bytes.  A container is its entry names and its word/document.xml  *)
(* as an XML reader sees it: malformed, or the w:p elements in document    *)
(* order, each the texts of its w:t elements.                              *)
(***************************************************************************)
DOCX_MAIN_XML == "word/document.xml"

DirEntry == [kind |-> "dir"]

TextFile(s) == [kind |-> "file", t |-> "text", s |-> s]

BytesFile == [kind |-> "file", t |-> "bytes"]

ZipFile(names, xml, body) ==
    [kind |-> "file", t |-> "zip", names |-> names, xml |-> xml, body |-> body]

\* line breaks as a reader in universal-newlines mode, or an XML parser, gives
\* them: "\r\n" and "\r" become "\n"
RECURSIVE NormalizeNewlines(_)
NormalizeNewlines(s) ==
    IF s = <<>> THEN <<>>
    ELSE IF Head(s) = CR /\ Len(s) >= 2 /\ s[2] = NL
         THEN <<NL>> \o NormalizeNewlines(Drop(s, 2))
    ELSE IF Head(s) = CR THEN <<NL>> \o NormalizeNewlines(Tail(s))
    ELSE <<Head(s)>> \o NormalizeNewlines(Tail(s))

\* input_path.read_text(encoding="utf-8"): the text, or UnicodeDecodeError
read_text(fsx, p) ==
    IF fsx[p].t = "text"
    THEN [err |-> "none", text |-> NormalizeNewlines(fsx[p].s)]
    ELSE [err |-> "unexpected", text |-> <<>>]

\* "".join(texts) of a list of str
RECURSIVE Concat(_)
Concat(texts) == IF texts = <<>> THEN <<>> ELSE Head(texts) \o Concat(Tail(texts))

\* the paragraphs list extract_docx_text builds from the w:p elements
RECURSIVE DocxParagraphs(_)
DocxParagraphs(body) ==
    IF body = <<>> THEN <<>>
    ELSE LET texts == SelectSeq(Head(body), LAMBDA t : t # <<>>)
             one == Strip(Concat(texts))
         IN  (IF texts # <<>> /\ one # <<>> THEN <<one>> ELSE <<>>)
             \o DocxParagraphs(Tail(body))

\* extract_docx_text: the text, or the SovereignDocError it raises
extract_docx_text(fsx, docx_path) ==
    IF ~IsFile(fsx, docx_path) THEN [err |-> "not_found", text |-> <<>>]
    ELSE IF fsx[docx_path].t # "zip" \/ DOCX_MAIN_XML \notin fsx[docx_path].names
    THEN [err |-> "pkg_open", text |-> <<>>]
    ELSE IF fsx[docx_path].xml # "ok" THEN [err |-> "pkg_parse", text |-> <<>>]
    ELSE LET paragraphs == DocxParagraphs(fsx[docx_path].body)
         IN  [err |-> "none",
              text |-> IF paragraphs # <<>>
                       THEN Strip(Join(paragraphs, TwoNL)) \o <<NL>>
                       ELSE <<>>]

DocxEntryNames == {"[Content_Types].xml", "_rels/.rels", DOCX_MAIN_XML}

\* _create_basic_docx_xml: one w:p with one w:r with one w:t per paragraph; a
\* reader of the serialized part sees the text with its line breaks normalized
_create_basic_docx_xml(paragraphs) ==
    [i \in DOMAIN paragraphs |-> <<NormalizeNewlines(paragraphs[i])>>]

\* text_to_docx_bytes splitting at every line break
text_to_docx_bytes_by_line(text) ==
    LET split == SelectStrip(SplitOn(text, <<NL>>))
        paragraphs == IF split = <<>> THEN << <<>> >> ELSE split
    IN  ZipFile(DocxEntryNames, "ok", _create_basic_docx_xml(paragraphs))

\* text_to_docx_bytes, and the container convert_any writes from it
text_to_docx_bytes(text) ==
    LET split == SelectStrip(SplitOn(text, TwoNL))
        paragraphs == IF split = <<>> THEN << <<>> >> ELSE split
    IN  ZipFile(DocxEntryNames, "ok", _create_basic_docx_xml(paragraphs))

(***************************************************************************)
(* The log                                                                 *)
(***************************************************************************)
\* fieldnames; a row holds the fields but the two clock readings (timestamp,
\* duration_ms), which no branch of the code depends on
Fieldnames ==
    <<"timestamp", "input_path", "output_path", "src_format", "dst_format", "mode",
      "duration_ms", "chars_out", "omega_score">>

HeaderRow == [header |-> Fieldnames]

NoRow == [header |-> <<>>]

\* what can go wrong in _log_conversion, by the first call that raises
LogEnvs == {"ok", "resolve_fail", "exists_fail", "open_fail", "header_fail", "row_fail"}

\* _log_conversion: the log after it, whether the row was written, whether it raised
_log_conversion(log0, row, lenv) ==
    LET new_file == ~log0.exists
        opened == [log0 EXCEPT !.exists = TRUE]
        headed == IF new_file
                  THEN [opened EXCEPT !.rows = Append(@, HeaderRow)] ELSE opened
    IN  IF lenv \in {"resolve_fail", "exists_fail"}
        THEN [log |-> log0, wrote |-> FALSE, raised |-> TRUE]
        ELSE IF lenv = "open_fail"
        THEN [log |-> log0, wrote |-> FALSE, raised |-> FALSE]
        ELSE IF lenv = "header_fail" /\ new_file
        THEN [log |-> opened, wrote |-> FALSE, raised |-> FALSE]
        ELSE IF lenv = "row_fail"
        THEN [log |-> headed, wrote |-> FALSE, raised |-> FALSE]
        ELSE [log |-> [headed EXCEPT !.rows = Append(@, row)],
              wrote |-> TRUE, raised |-> FALSE]

(***************************************************************************)
(* convert_any                                                             *)
(***************************************************************************)
SrcExts == {<<".">> \o DOCX, <<".">> \o TXT, <<".">> \o MD}

DstTokens == {TXT, MD, HTML, DOCX}

DomainErrors == {"not_found", "bad_src", "bad_dst", "pkg_open", "pkg_parse"}

\* Validate with the destination format tested before the source extension
Validate_dst_first(fsx, input_path, dst_format) ==
    IF ~IsFile(fsx, input_path)
    THEN [err |-> "not_found", steps |-> <<"is_file">>]
    ELSE IF Lower(dst_format) \notin DstTokens
    THEN [err |-> "bad_dst", steps |-> <<"is_file", "dst_format">>]
    ELSE IF Lower(Suffix(input_path.name)) \notin SrcExts
    THEN [err |-> "bad_src", steps |-> <<"is_file", "dst_format", "src_ext">>]
    ELSE [err |-> "none", steps |-> <<"is_file", "dst_format", "src_ext">>]

\* the three validation checks of convert_any, in the order they are made: the
\* error the first failing one raises, and the checks made up to it
Validate(fsx, input_path, dst_format) ==
    IF ~IsFile(fsx, input_path)
    THEN [err |-> "not_found", steps |-> <<"is_file">>]
    ELSE IF Lower(Suffix(input_path.name)) \notin SrcExts
    THEN [err |-> "bad_src", steps |-> <<"is_file", "src_ext">>]
    ELSE IF Lower(dst_format) \notin DstTokens
    THEN [err |-> "bad_dst", steps |-> <<"is_file", "src_ext", "dst_format">>]
    ELSE [err |-> "none", steps |-> <<"is_file", "src_ext", "dst_format">>]

\* raw_out: base = input_path.with_suffix(""), then base.with_suffix("." + dst_format)
RawOut(input_path, dst) ==
    [input_path EXCEPT
        !.name = with_suffix(with_suffix(input_path.name, <<>>), <<".">> \o dst)]

\* converted, for the destinations written as text
Converted(plain, src_ext, dst) ==
    IF dst = TXT THEN plain
    ELSE IF dst = MD
    THEN LET c == IF src_ext = <<".">> \o MD THEN plain ELSE txt_to_markdown(plain)
         IN  IF EndsWith(c, <<NL>>) THEN c ELSE c \o <<NL>>
    ELSE IF dst = HTML
    THEN (IF src_ext = <<".">> \o MD THEN markdown_to_html(plain) ELSE text_to_html(plain))
    ELSE (IF src_ext = <<".">> \o MD THEN markdown_to_plain_text(plain) ELSE plain)

\* what can go wrong when the output is written
WriteEnvs == {"ok", "write_fail"}

\* the file at out_path after the write: the output, or what a failed write leaves
Written(converted, dst, wenv) ==
    IF wenv = "ok"
    THEN (IF dst = DOCX THEN text_to_docx_bytes(converted) ELSE TextFile(converted))
    ELSE (IF dst = DOCX THEN BytesFile ELSE TextFile(<<>>))

\* fsx with the file at path p set to entry e
Put(fsx, p, e) == [q \in DOMAIN fsx \cup {p} |-> IF q = p THEN e ELSE fsx[q]]

\* convert_any opening the output for writing before it reads the source
convert_any_open_first(fsx, log0, input_path, dst_format, mode, enable_log, wenv, lenv) ==
    LET v == Validate(fsx, input_path, dst_format)
        src_ext == Lower(Suffix(input_path.name))
        dst == Lower(dst_format)
        out_path == _unique_path(fsx, RawOut(input_path, dst))
        rd == IF src_ext = <<".">> \o DOCX
              THEN extract_docx_text(fsx, input_path)
              ELSE read_text(fsx, input_path)
        converted == Converted(rd.text, src_ext, dst)
        fs1 == Put(fsx, out_path, Written(converted, dst, wenv))
        row == [input_path |-> input_path, output_path |-> out_path,
                src_format |-> LStripChars(src_ext, {"."}), dst_format |-> dst,
                mode |-> mode, chars_out |-> Len(converted),
                omega_score |-> _compute_omega_score(converted, dst)]
        lg == _log_conversion(log0, row, lenv)
    IN  IF v.err # "none"
        THEN [result |-> v.err, out_path |-> NoPath, fs |-> fsx, log |-> log0,
              steps |-> v.steps, row |-> NoRow, wrote_log |-> FALSE]
        ELSE IF rd.err # "none"
        THEN [result |-> rd.err, out_path |-> out_path,
              fs |-> Put(fsx, out_path, Written(<<>>, dst, "write_fail")), log |-> log0,
              steps |-> v.steps \o <<"unique_path", "read">>, row |-> NoRow,
              wrote_log |-> FALSE]
        ELSE IF wenv # "ok"
        THEN [result |-> "unexpected", out_path |-> out_path, fs |-> fs1, log |-> log0,
              steps |-> v.steps \o <<"unique_path", "read", "write">>, row |-> NoRow,
              wrote_log |-> FALSE]
        ELSE IF ~enable_log
        THEN [result |-> "ok", out_path |-> out_path, fs |-> fs1, log |-> log0,
              steps |-> v.steps \o <<"unique_path", "read", "write", "score">>,
              row |-> NoRow, wrote_log |-> FALSE]
        ELSE [result |-> IF lg.raised THEN "unexpected" ELSE "ok",
              out_path |-> out_path, fs |-> fs1, log |-> lg.log,
              steps |-> v.steps \o <<"unique_path", "read", "write", "score", "log">>,
              row |-> row, wrote_log |-> lg.wrote]

\* convert_any: the outcome (ok, the SovereignDocError raised, or unexpected for
\* any other exception), the output path chosen, the file system and the log
\* after the call, and the steps taken in order
convert_any(fsx, log0, input_path, dst_format, mode, enable_log, wenv, lenv) ==
    LET v == Validate(fsx, input_path, dst_format)
        src_ext == Lower(Suffix(input_path.name))
        dst == Lower(dst_format)
        out_path == _unique_path(fsx, RawOut(input_path, dst))
        rd == IF src_ext = <<".">> \o DOCX
              THEN extract_docx_text(fsx, input_path)
              ELSE read_text(fsx, input_path)
        converted == Converted(rd.text, src_ext, dst)
        fs1 == Put(fsx, out_path, Written(converted, dst, wenv))
        row == [input_path |-> input_path, output_path |-> out_path,
                src_format |-> LStripChars(src_ext, {"."}), dst_format |-> dst,
                mode |-> mode, chars_out |-> Len(converted),
                omega_score |-> _compute_omega_score(converted, dst)]
        lg == _log_conversion(log0, row, lenv)
    IN  IF v.err # "none"
        THEN [result |-> v.err, out_path |-> NoPath, fs |-> fsx, log |-> log0,
              steps |-> v.steps, row |-> NoRow, wrote_log |-> FALSE]
        ELSE IF rd.err # "none"
        THEN [result |-> rd.err, out_path |-> out_path, fs |-> fsx, log |-> log0,
              steps |-> v.steps \o <<"unique_path", "read">>, row |-> NoRow,
              wrote_log |-> FALSE]
        ELSE IF wenv # "ok"
        THEN [result |-> "unexpected", out_path |-> out_path, fs |-> fs1, log |-> log0,
              steps |-> v.steps \o <<"unique_path", "read", "write">>, row |-> NoRow,
              wrote_log |-> FALSE]
        ELSE IF ~enable_log
        THEN [result |-> "ok", out_path |-> out_path, fs |-> fs1, log |-> log0,
              steps |-> v.steps \o <<"unique_path", "read", "write", "score">>,
              row |-> NoRow, wrote_log |-> FALSE]
        ELSE [result |-> IF lg.raised THEN "unexpected" ELSE "ok",
              out_path |-> out_path, fs |-> fs1, log |-> lg.log,
              steps |-> v.steps \o <<"unique_path", "read", "write", "score", "log">>,
              row |-> row, wrote_log |-> lg.wrote]

(***************************************************************************)
(* Pure functions under test: the input is drawn in Init, the actions      *)
(* apply the function.                                                     *)
(***************************************************************************)
MaxMdLines == 3
MaxTxtLen == 5
MaxScoreLen == 3

\* all sequences over S of length at most n
SeqsUpTo(S, n) == UNION {[1..k -> S] : k \in 0..n}

MdSampleLines ==
    { <<>>, <<SP>>,
      <<"-", SP, "a">>, <<"*", SP, "<", "u", "l", ">">>, <<SP, "+", SP, "b">>, <<"-", "x">>,
      <<"#", SP, "H">>, <<"#", "#", SP, "<", "/", "u", "l", ">">>, <<"#", "#", "#", SP, "h">>,
      <<"<", "u", "l", ">">>, <<"a", "&", "b">> }

MdInputs == {Join(ls, <<NL>>) : ls \in SeqsUpTo(MdSampleLines, MaxMdLines)}

TxtAlphabet == {NL, CR, SP, "A", "a", "#", "-"}

TxtInputs == SeqsUpTo(TxtAlphabet, MaxTxtLen)

ScoreAlphabet == {NL, SP, "#", "-", "a"}

ScoreInputs == SeqsUpTo(ScoreAlphabet, MaxScoreLen)

DstFormats == {TXT, MD, HTML, DOCX}

NoCall ==
    [n |-> 0, input_path |-> NoPath, dst_format |-> <<>>, enable_log |-> FALSE,
     result |-> "none", out_path |-> NoPath, steps |-> <<>>, repeat |-> FALSE]

NoFs == <<>>
NoLog == [exists |-> FALSE, rows |-> <<>>]
NoCli == [pc |-> "off"]

IdleCore ==
    /\ fs = NoFs /\ log = NoLog /\ logged = <<>> /\ last = NoCall /\ ncalls = 0
    /\ cli = NoCli

CoreUnchanged == UNCHANGED <<fs, log, logged, last, ncalls, cli>>

\* ---- markdown_to_html
InitMd ==
    /\ IdleCore
    /\ txt \in MdInputs /\ mid = <<>> /\ out = <<>> /\ phase = "md_in"

MarkdownToHtml ==
    /\ phase = "md_in"
    /\ out' = markdown_to_html(txt)
    /\ phase' = "md_done"
    /\ UNCHANGED <<txt, mid>> /\ CoreUnchanged

NextMd == MarkdownToHtml

SpecMd == InitMd /\ [][NextMd]_vars

\* ---- txt_to_markdown, then markdown_to_plain_text
InitRt ==
    /\ IdleCore
    /\ txt \in TxtInputs /\ mid = <<>> /\ out = <<>> /\ phase = "rt_in"

TxtToMarkdown ==
    /\ phase = "rt_in"
    /\ mid' = txt_to_markdown(txt)
    /\ phase' = "rt_md"
    /\ UNCHANGED <<txt, out>> /\ CoreUnchanged

MarkdownToPlainText ==
    /\ phase = "rt_md"
    /\ out' = markdown_to_plain_text(mid)
    /\ phase' = "rt_done"
    /\ UNCHANGED <<txt, mid>> /\ CoreUnchanged

NextRt == TxtToMarkdown \/ MarkdownToPlainText

SpecRt == InitRt /\ [][NextRt]_vars

\* ---- _compute_omega_score; mid holds dst_fmt
InitScore ==
    /\ IdleCore
    /\ txt \in ScoreInputs /\ mid \in DstFormats /\ out = -1 /\ phase = "sc_in"

ComputeOmegaScore ==
    /\ phase = "sc_in"
    /\ out' = _compute_omega_score(txt, mid)
    /\ phase' = "sc_done"
    /\ UNCHANGED <<txt, mid>> /\ CoreUnchanged

NextScore == ComputeOmegaScore

SpecScore == InitScore /\ [][NextScore]_vars

(***************************************************************************)
(* convert_any as an action.  One call is one step: validation, the choice *)
(* of the output path, the read, the conversion, the write and the log.    *)
(***************************************************************************)
\* a call of convert_any(input_path, dst_format, mode, enable_log) by a caller
\* that has made fewer than max calls, in an environment where the write of the
\* output goes as wenv says and the log write as lenv says
Call(input_path, dst_format, mode, enable_log, wenv, lenv, max) ==
    /\ ncalls < max
    /\ lenv = "header_fail" => ~log.exists
    /\ \E r \in {convert_any(fs, log, input_path, dst_format, mode, enable_log, wenv, lenv)} :
           /\ fs' = r.fs
           /\ log' = r.log
           /\ logged' = IF r.result = "ok" /\ enable_log /\ lenv = "ok"
                        THEN Append(logged, r.row) ELSE logged
           /\ last' = [n |-> ncalls + 1, input_path |-> input_path,
                       dst_format |-> dst_format, enable_log |-> enable_log,
                       result |-> r.result, out_path |-> r.out_path, steps |-> r.steps,
                       repeat |-> /\ last.result = "ok"
                                  /\ last.input_path = input_path
                                  /\ Lower(last.dst_format) = Lower(dst_format)]
           /\ ncalls' = ncalls + 1

HarnessIdle == txt = <<>> /\ mid = <<>> /\ out = <<>> /\ phase = "off"

HarnessUnchanged == UNCHANGED <<txt, mid, out, phase>>

\* ---- names and files of the sample file systems
DirD == <<"D">>
DirE == <<"E">>
N_a_txt == <<"a", ".", "t", "x", "t">>
N_a_b_txt == <<"a", ".", "b", ".", "t", "x", "t">>
N_n_md == <<"n", ".", "m", "d">>
N_p_docx == <<"p", ".", "d", "o", "c", "x">>
N_q_docx == <<"q", ".", "d", "o", "c", "x">>
N_r_pdf == <<"r", ".", "p", "d", "f">>
N_s_txt == <<"s", ".", "t", "x", "t">>
N_u_TXT == <<"u", ".", "T", "X", "T">>
N_zz_pdf == <<"z", "z", ".", "p", "d", "f">>
N_zz_txt == <<"z", "z", ".", "t", "x", "t">>
N_a_html == <<"a", ".", "h", "t", "m", "l">>
N_a_1_html == <<"a", " ", "(", "1", ")", ".", "h", "t", "m", "l">>
N_a_2_html == <<"a", " ", "(", "2", ")", ".", "h", "t", "m", "l">>
N_x_docx == <<"x", ".", "d", "o", "c", "x">>

SampleText == <<"H", "i", "\n", "\n", "-", " ", "x", "\n">>
SampleMd == <<"#", " ", "T", "\n", "-", " ", "i">>
OldHtml == <<"o", "l", "d">>

SampleDoc == ZipFile({DOCX_MAIN_XML, "docProps/app.xml"}, "ok",
                     << << <<"T">> >>, << <<"B">>, <<" ", "t">> >> >>)

\* the files every sample file system holds
BaseFiles ==
    (Path(DirD, N_a_txt) :> TextFile(SampleText))
    @@ (Path(DirD, N_a_b_txt) :> TextFile(<<"t">>))
    @@ (Path(DirE, N_a_txt) :> TextFile(<<"A">>))
    @@ (Path(DirD, N_n_md) :> TextFile(SampleMd))
    @@ (Path(DirD, N_p_docx) :> SampleDoc)
    @@ (Path(DirD, N_q_docx) :> TextFile(<<"j", "u", "n", "k">>))
    @@ (Path(DirD, N_r_pdf) :> BytesFile)
    @@ (Path(DirD, N_s_txt) :> DirEntry)
    @@ (Path(DirD, N_u_TXT) :> BytesFile)

\* earlier outputs that may lie in the directory before the first call
OldOutputs == {Path(DirD, N_a_html), Path(DirD, N_a_1_html), Path(DirD, N_a_2_html)}

OldOutputSets ==
    { {}, {Path(DirD, N_a_html)},
      {Path(DirD, N_a_html), Path(DirD, N_a_1_html)},
      {Path(DirD, N_a_html), Path(DirD, N_a_2_html)} }

WithOld(fsx, olds) ==
    [q \in DOMAIN fsx \cup olds |-> IF q \in olds THEN TextFile(OldHtml) ELSE fsx[q]]

\* ---- convert_any on a directory of documents, logging on
MaxFsCalls == 2

FsInputs ==
    { Path(DirD, N_a_txt), Path(DirD, N_a_b_txt), Path(DirE, N_a_txt),
      Path(DirD, N_n_md), Path(DirD, N_p_docx), Path(DirD, N_q_docx),
      Path(DirD, N_r_pdf), Path(DirD, N_s_txt), Path(DirD, N_u_TXT),
      Path(DirD, N_zz_pdf) }

FsDstFormats == {TXT, MD, HTML, DOCX, <<"H", "t", "m", "l">>, <<"p", "d", "f">>}

InitFs ==
    /\ fs \in {WithOld(BaseFiles, olds) : olds \in OldOutputSets}
    /\ log = NoLog /\ logged = <<>> /\ last = NoCall /\ ncalls = 0 /\ cli = NoCli
    /\ HarnessIdle

ConvertAnyFs ==
    /\ \E input_path \in FsInputs, dst_format \in FsDstFormats :
          Call(input_path, dst_format, "core", TRUE, "ok", "ok", MaxFsCalls)
    /\ UNCHANGED cli /\ HarnessUnchanged

NextFs == ConvertAnyFs

SpecFs == InitFs /\ [][NextFs]_vars

\* ---- convert_any with a log that can fail
MaxLogCalls == 3

LogInputs == {Path(DirD, N_a_txt), Path(DirD, N_zz_txt)}

LogDstFormats == {TXT, <<"p", "d", "f">>}

InitLog ==
    /\ fs = (Path(DirD, N_a_txt) :> TextFile(SampleText))
    /\ log = NoLog /\ logged = <<>> /\ last = NoCall /\ ncalls = 0 /\ cli = NoCli
    /\ HarnessIdle

ConvertAnyLog ==
    /\ \E input_path \in LogInputs, dst_format \in LogDstFormats, enable_log \in BOOLEAN,
          wenv \in WriteEnvs, lenv \in LogEnvs :
          Call(input_path, dst_format, "core", enable_log, wenv, lenv, MaxLogCalls)
    /\ UNCHANGED cli /\ HarnessUnchanged

NextLog == ConvertAnyLog

SpecLog == InitLog /\ [][NextLog]_vars

\* ---- convert_any from a package to a package
MaxParas == 3
MaxPkgCalls == 1

\* w:p elements, each the texts of its w:t elements
SampleParagraphs ==
    { << <<"T">> >>, << <<"B">>, <<" ", "t">> >>, << <<" ", "x", " ">> >>, << <<>> >>, << <<" ">> >>, <<>>,
      << <<"a", "\n", "\n", "b">> >>, << <<"c", "\r", "d">> >>, << <<"e", "\n", "f">> >> }

PkgInputs == {Path(DirD, N_x_docx)}

PkgDstFormats == {DOCX, <<"D", "o", "c", "x">>}

InitPkg ==
    /\ \E body \in SeqsUpTo(SampleParagraphs, MaxParas) :
          fs = (Path(DirD, N_x_docx) :> ZipFile({DOCX_MAIN_XML}, "ok", body))
    /\ log = NoLog /\ logged = <<>> /\ last = NoCall /\ ncalls = 0 /\ cli = NoCli
    /\ HarnessIdle

ConvertAnyPkg ==
    /\ \E input_path \in PkgInputs, dst_format \in PkgDstFormats :
          Call(input_path, dst_format, "core", FALSE, "ok", "ok", MaxPkgCalls)
    /\ UNCHANGED cli /\ HarnessUnchanged

NextPkg == ConvertAnyPkg

SpecPkg == InitPkg /\ [][NextPkg]_vars

(***************************************************************************)
(* The command line front end                                              *)
(***************************************************************************)
\* the characters of file names in code point order
CodeOrder ==
    <<SP, "(", ")", ".", "0", "1", "2", "3", "4", "5", "6", "7", "8", "9",
      "A", "B", "C", "D", "E", "H", "L", "M", "O", "T", "X",
      "a", "b", "c", "d", "e", "h", "l", "m", "n", "o", "p", "q", "t", "x">>

Code(c) == CHOOSE i \in DOMAIN CodeOrder : CodeOrder[i] = c

\* a < b for str
RECURSIVE StrLess(_, _)
StrLess(a, b) ==
    IF b = <<>> THEN FALSE
    ELSE IF a = <<>> THEN TRUE
    ELSE IF Head(a) # Head(b) THEN Code(Head(a)) < Code(Head(b))
    ELSE StrLess(Tail(a), Tail(b))

\* p < q for paths of one directory
PathLess(p, q) == StrLess(p.name, q.name)

\* sorted(paths)
RECURSIVE Sorted(_)
Sorted(paths) ==
    IF paths = {} THEN <<>>
    ELSE LET least == CHOOSE p \in paths : \A q \in paths \ {p} : PathLess(p, q)
         IN  <<least>> \o Sorted(paths \ {least})

\* folder.glob("*.docx"): the entries of the folder whose name ends in .docx
Glob(fsx, folder) ==
    {p \in DOMAIN fsx : p.dir = folder.name /\ EndsWith(p.name, <<".">> \o DOCX)}

CliIdle ==
    [pc |-> "start", mode |-> "none", input |-> NoPath, dst_format |-> <<>>,
     logging_enabled |-> FALSE, docx_files |-> <<>>, idx |-> 0, attempted |-> <<>>,
     outcomes |-> <<>>, success_count |-> 0, exit |-> -1, glob_at_start |-> {}]

\* main up to the call of _convert_folder or _convert_single, and _convert_folder
\* up to its loop (it returns 0 at once when the folder has no .docx entry)
CliEnter(c, fsx, input, dst_format, no_log) ==
    IF IsDir(fsx, input)
    THEN [c EXCEPT !.mode = "batch", !.input = input, !.dst_format = dst_format,
                   !.logging_enabled = ~no_log,
                   !.docx_files = Sorted(Glob(fsx, input)),
                   !.glob_at_start = Glob(fsx, input),
                   !.idx = 1,
                   !.pc = IF Glob(fsx, input) = {} THEN "done" ELSE "loop",
                   !.exit = IF Glob(fsx, input) = {} THEN 0 ELSE -1]
    ELSE [c EXCEPT !.mode = "single", !.input = input, !.dst_format = dst_format,
                   !.logging_enabled = ~no_log, !.pc = "single"]

\* _convert_single after convert_any: 1 on SovereignDocError or any Exception
SingleAfter(c, result) ==
    [c EXCEPT !.attempted = Append(@, c.input), !.outcomes = Append(@, result),
              !.exit = IF result = "ok" THEN 0 ELSE 1, !.pc = "done"]

\* the loop body of _convert_folder that stops the run at the first error
BatchAfter_abort(c, result) ==
    LET done == c.idx = Len(c.docx_files) \/ result # "ok"
    IN  [c EXCEPT !.attempted = Append(@, c.docx_files[c.idx]),
                  !.outcomes = Append(@, result),
                  !.success_count = IF result = "ok" THEN @ + 1 ELSE @,
                  !.idx = @ + 1,
                  !.pc = IF done THEN "done" ELSE "loop",
                  !.exit = IF result # "ok" THEN 1 ELSE IF done THEN 0 ELSE -1]

\* the loop body of _convert_folder after convert_any: both except clauses
\* continue, the else clause counts a success; return 0 after the last file
BatchAfter(c, result) ==
    LET done == c.idx = Len(c.docx_files)
    IN  [c EXCEPT !.attempted = Append(@, c.docx_files[c.idx]),
                  !.outcomes = Append(@, result),
                  !.success_count = IF result = "ok" THEN @ + 1 ELSE @,
                  !.idx = @ + 1,
                  !.pc = IF done THEN "done" ELSE "loop",
                  !.exit = IF done THEN 0 ELSE -1]

MaxCliFiles == 3

N_a_docx == <<"a", ".", "d", "o", "c", "x">>
N_a_1_docx == <<"a", " ", "(", "1", ")", ".", "d", "o", "c", "x">>
N_b_docx == <<"b", ".", "d", "o", "c", "x">>
N_c_docx == <<"c", ".", "d", "o", "c", "x">>
N_d_docx == <<"d", ".", "d", "o", "c", "x">>
N_e_DOCX == <<"e", ".", "D", "O", "C", "X">>

\* what a folder may hold: a readable package, one that is no zip, one with
\* malformed XML, a directory named like a package, an earlier output, and a
\* package whose extension is in upper case
CliCandidates ==
    (Path(DirD, N_b_docx) :> SampleDoc)
    @@ (Path(DirD, N_a_docx) :> TextFile(<<"j", "u", "n", "k">>))
    @@ (Path(DirD, N_c_docx) :> ZipFile({DOCX_MAIN_XML}, "malformed", <<>>))
    @@ (Path(DirD, N_d_docx) :> DirEntry)
    @@ (Path(DirD, N_a_1_docx) :> SampleDoc)
    @@ (Path(DirD, N_e_DOCX) :> SampleDoc)

CliFolder(chosen) ==
    [q \in chosen \cup {Path(<<>>, DirD), Path(DirD, N_a_txt)} |->
        IF q \in chosen THEN CliCandidates[q]
        ELSE IF q = Path(<<>>, DirD) THEN DirEntry
        ELSE TextFile(SampleText)]

CliInputs == {Path(<<>>, DirD), Path(DirD, N_a_txt), Path(DirD, N_a_docx)}

CliDstFormats == {TXT, DOCX}

CliLogEnvs == {"ok", "exists_fail"}

InitCli ==
    /\ \E chosen \in SUBSET DOMAIN CliCandidates :
          /\ Cardinality(chosen) <= MaxCliFiles
          /\ fs = CliFolder(chosen)
    /\ log = NoLog /\ logged = <<>> /\ last = NoCall /\ ncalls = 0
    /\ cli = CliIdle
    /\ HarnessIdle

\* main: parse_args, then the branch on input_path.is_dir()
CliMain ==
    /\ cli.pc = "start"
    /\ \E input \in CliInputs, dst_format \in CliDstFormats, no_log \in BOOLEAN :
          cli' = CliEnter(cli, fs, input, dst_format, no_log)
    /\ UNCHANGED <<fs, log, logged, last, ncalls>> /\ HarnessUnchanged

\* _convert_single
CliConvertSingle ==
    /\ cli.pc = "single"
    /\ \E wenv \in WriteEnvs, lenv \in CliLogEnvs :
          Call(cli.input, cli.dst_format, "cli-single", cli.logging_enabled, wenv, lenv,
               ncalls + 1)
    /\ cli' = SingleAfter(cli, last'.result)
    /\ HarnessUnchanged

\* one iteration of the loop of _convert_folder
CliConvertNext ==
    /\ cli.pc = "loop"
    /\ \E wenv \in WriteEnvs, lenv \in CliLogEnvs :
          Call(cli.docx_files[cli.idx], cli.dst_format, "cli-batch", cli.logging_enabled,
               wenv, lenv, ncalls + 1)
    /\ cli' = BatchAfter(cli, last'.result)
    /\ HarnessUnchanged

NextCli == CliMain \/ CliConvertSingle \/ CliConvertNext

SpecCli == InitCli /\ [][NextCli]_vars

(***************************************************************************)
(* convert_any on inputs it rejects                                        *)
(***************************************************************************)
MaxErrCalls == 2

N_m_docx == <<"m", ".", "d", "o", "c", "x">>
N_c_txt == <<"c", ".", "t", "x", "t">>

\* a text, a readable package, a file that is no zip, a zip without
\* word/document.xml, a zip whose document.xml is malformed, a directory named
\* like a package and a file of an unsupported format
ErrFiles ==
    (Path(DirD, N_a_txt) :> TextFile(SampleText))
    @@ (Path(DirD, N_q_docx) :> TextFile(<<"j", "u", "n", "k">>))
    @@ (Path(DirD, N_m_docx) :> ZipFile({"docProps/app.xml"}, "ok", <<>>))
    @@ (Path(DirD, N_c_docx) :> ZipFile({DOCX_MAIN_XML}, "malformed", <<>>))
    @@ (Path(DirD, N_d_docx) :> DirEntry)
    @@ (Path(DirD, N_r_pdf) :> BytesFile)

\* an earlier output that may stand where the output of c.docx would go
ErrOldOutputSets == { {}, {Path(DirD, N_c_txt)} }

ErrInputs == DOMAIN ErrFiles \cup {Path(DirD, N_zz_txt)}

ErrDstFormats == {TXT, DOCX, <<"p", "d", "f">>}

InitErr ==
    /\ \E olds \in ErrOldOutputSets : fs = WithOld(ErrFiles, olds)
    /\ log = NoLog /\ logged = <<>> /\ last = NoCall /\ ncalls = 0 /\ cli = NoCli
    /\ HarnessIdle

ConvertAnyErr ==
    /\ \E input_path \in ErrInputs, dst_format \in ErrDstFormats, enable_log \in BOOLEAN :
          Call(input_path, dst_format, "core", enable_log, "ok", "ok", MaxErrCalls)
    /\ UNCHANGED cli /\ HarnessUnchanged

NextErr == ConvertAnyErr

SpecErr == InitErr /\ [][NextErr]_vars

(***************************************************************************)
(* Claims about the pure functions                                         *)
(***************************************************************************)
\* index of the first occurrence of sub in s, or Len(s) + 1 when there is none
FirstIndex(s, sub) ==
    IF \E i \in 1..Len(s) : StartsWith(Drop(s, i - 1), sub)
    THEN CHOOSE i \in 1..Len(s) :
            /\ StartsWith(Drop(s, i - 1), sub)
            /\ \A j \in 1..(i - 1) : ~StartsWith(Drop(s, j - 1), sub)
    ELSE Len(s) + 1

\* reading s left to right, every list-close tag closes a list that is open, no
\* list is opened inside an open list, and no list is open at the end
RECURSIVE ListsWellNested(_, _)
ListsWellNested(s, open) ==
    IF s = <<>> THEN ~open
    ELSE IF StartsWith(s, UlOpen) THEN ~open /\ ListsWellNested(Drop(s, Len(UlOpen)), TRUE)
    ELSE IF StartsWith(s, UlClose) THEN open /\ ListsWellNested(Drop(s, Len(UlClose)), FALSE)
    ELSE ListsWellNested(Tail(s), open)

\* C2: the output of markdown_to_html holds as many list-open tags as list-close
\* tags, and every list opened is closed before the closing body tag, also a list
\* still open at the end of the input.
C2_ListsClosed ==
    phase = "md_done" =>
        LET body == Take(out, FirstIndex(out, BodyClose) - 1)
        IN  /\ Count(out, UlOpen) = Count(out, UlClose)
            /\ FirstIndex(out, BodyClose) <= Len(out)
            /\ Count(body, UlOpen) = Count(out, UlOpen)
            /\ ListsWellNested(body, FALSE)

\* a conversion whose input ends inside a list, after an earlier list was closed
C2_Witness ==
    /\ phase = "md_done"
    /\ MdLoop(SplitLines(txt), <<>>, FALSE).in_list
    /\ Count(out, UlOpen) = 2

\* C3 as stated: the score of an empty output is 0.0 in every destination format.
C3_EmptyScoresZero ==
    (phase = "sc_done" /\ txt = <<>>) => out = 0

\* C3 as amended: the score of an empty output is 0.0 for the destinations txt and
\* md, and 0.6 * (1 / 50) = 0.012 for html and docx, where the empty output counts
\* as one paragraph.
C3_EmptyScore ==
    (phase = "sc_done" /\ txt = <<>>) =>
        IF mid \in {HTML, DOCX}
        THEN out * WeightDen * StructCap = WeightStructure * ScoreDen
        ELSE out = 0

C3_Witness ==
    phase = "sc_done" /\ txt = <<>> /\ mid = DOCX /\ out > 0

\* a line that is blank for the heuristics: empty, or whitespace only
IsBlankLine(line) == Strip(line) = <<>>

\* a non-blank line that is nothing but heading marks, or nothing but bullet glyphs
IsMarkerOnly(line) ==
    /\ Strip(line) # <<>>
    /\ \/ \A i \in DOMAIN Strip(line) : Strip(line)[i] = "#"
       \/ \A i \in DOMAIN Strip(line) : Strip(line)[i] \in BulletGlyphs

\* the inputs the amended C9 covers
RtRegular(t) ==
    LET lines == SplitLines(t)
    IN  /\ \A i \in DOMAIN t : t[i] # CR
        /\ lines # <<>> => (~IsBlankLine(lines[1]) /\ ~IsBlankLine(lines[Len(lines)]))
        /\ \A i \in DOMAIN lines : IsBlankLine(lines[i]) => lines[i] = <<>>
        /\ \A i \in DOMAIN lines : ~IsMarkerOnly(lines[i])

\* C9 as stated: for every plain text t, markdown_to_plain_text(txt_to_markdown(t))
\* has as many blank-line paragraph boundaries (occurrences of two line breaks in
\* a row) as t.
C9_BoundariesPreserved ==
    phase = "rt_done" => Count(out, TwoNL) = Count(txt, TwoNL)

\* C9 as amended: the count is preserved for every t whose only line break is
\* "\n", that neither starts nor ends with a blank line, whose blank lines are
\* empty (not whitespace only), and that has no line made only of "#" or only of
\* bullet glyphs.
C9_BoundariesPreservedRegular ==
    (phase = "rt_done" /\ RtRegular(txt)) => Count(out, TwoNL) = Count(txt, TwoNL)

\* a covered input with a paragraph boundary that the heuristics rewrote
C9_Witness ==
    /\ phase = "rt_done"
    /\ RtRegular(txt)
    /\ Count(txt, TwoNL) >= 1
    /\ mid # txt \o <<NL>>
    /\ mid # txt

(***************************************************************************)
(* Claims about convert_any                                                *)
(***************************************************************************)
\* C1: a successful convert_any call writes its output to a path where nothing
\* existed when the call started and leaves every existing file as it was; a
\* second conversion of the same input to the same format returns another path
\* and leaves the first output unchanged.
C1_NoOverwrite ==
    [][ (last'.n # last.n /\ last'.result = "ok") =>
          /\ ~Exists(fs, last'.out_path)
          /\ IsFile(fs', last'.out_path)
          /\ \A p \in DOMAIN fs : p \in DOMAIN fs' /\ fs'[p] = fs[p]
          /\ last'.repeat =>
                /\ last'.out_path # last.out_path
                /\ fs'[last.out_path] = fs[last.out_path] ]_vars

\* the same input converted twice to the same format, next to an older output
C1_Witness ==
    /\ last.result = "ok" /\ last.repeat
    /\ Exists(fs, Path(DirD, N_a_html))
    /\ fs[Path(DirD, N_a_html)] = TextFile(OldHtml)
    /\ last.out_path \notin OldOutputs
    /\ last.out_path.name # N_a_html

\* C4: convert_any reports the first failing check of: the input is an existing
\* file, the source extension is supported, the destination token (lower-cased)
\* is supported; when a check fails no output path is chosen and nothing is read
\* or written.
C4_ValidationOrder ==
    [][ last'.n # last.n =>
          LET bad_file == ~IsFile(fs, last'.input_path)
              bad_src == Lower(Suffix(last'.input_path.name)) \notin SrcExts
              bad_dst == Lower(last'.dst_format) \notin DstTokens
          IN  /\ bad_file => last'.result = "not_found"
              /\ (~bad_file /\ bad_src) => last'.result = "bad_src"
              /\ (~bad_file /\ ~bad_src /\ bad_dst) => last'.result = "bad_dst"
              /\ (~bad_file /\ ~bad_src /\ ~bad_dst) =>
                    last'.result \notin {"not_found", "bad_src", "bad_dst"}
              /\ (bad_file \/ bad_src \/ bad_dst) =>
                    /\ fs' = fs /\ log' = log
                    /\ last'.out_path = NoPath
                    /\ \A i \in DOMAIN last'.steps :
                          last'.steps[i] \notin {"unique_path", "read", "write", "log"} ]_vars

\* an existing file with an unsupported extension, converted to an unsupported
\* format: the source error is the one reported
C4_Witness ==
    /\ last.result = "bad_src"
    /\ IsFile(fs, last.input_path)
    /\ Lower(last.dst_format) \notin DstTokens

\* the smallest k >= 1 for which base (k).ext does not exist
SmallestFree(fsx, dir, base, ext) ==
    CHOOSE k \in 1..(Cardinality(DOMAIN fsx) + 1) :
        /\ ~Exists(fsx, Path(dir, base \o <<SP, "(">> \o Decimal(k) \o <<")">> \o ext))
        /\ \A j \in 1..(k - 1) :
              Exists(fsx, Path(dir, base \o <<SP, "(">> \o Decimal(j) \o <<")">> \o ext))

\* the output path C5 describes: the input's directory, its name with only the
\* last extension removed, the destination extension, and the smallest free
\* number when that path exists
C5_Expected(fsx, input_path, dst) ==
    LET base == Take(input_path.name, LastDot(input_path.name) - 1)
        ext == <<".">> \o dst
        first == Path(input_path.dir, base \o ext)
    IN  IF ~Exists(fsx, first) THEN first
        ELSE Path(input_path.dir,
                  base \o <<SP, "(">>
                  \o Decimal(SmallestFree(fsx, input_path.dir, base, ext))
                  \o <<")">> \o ext)

\* C5: the output path is in the input's directory and is the input's name with
\* only its last extension replaced by the destination extension, or
\* "base (k).ext" for the smallest free k >= 1 when that exists.
C5_OutputPath ==
    [][ (last'.n # last.n /\ last'.result = "ok") =>
          last'.out_path = C5_Expected(fs, last'.input_path, Lower(last'.dst_format)) ]_vars

\* the rows of the log that are data records
DataRows(rows) == SelectSeq(rows, LAMBDA r : r # HeaderRow)

\* C6: the data records of the log are the records of the calls that succeeded
\* with logging enabled and whose log write did not fail, in call order, and
\* the header row occurs exactly once, as the first row.
C6_LogRecords ==
    /\ DataRows(log.rows) = logged
    /\ log.rows # <<>> =>
          /\ log.rows[1] = HeaderRow
          /\ Cardinality({i \in DOMAIN log.rows : log.rows[i] = HeaderRow}) = 1

\* C7: once convert_any has passed validation and written its output, it returns
\* the output path: nothing that goes wrong in the log step reaches the caller.
C7_LogFailureAbsorbed ==
    (\E i \in DOMAIN last.steps : last.steps[i] = "score") => last.result = "ok"

\* the paragraph list extract_docx_text makes of the source of the last call
SourceParagraphs == DocxParagraphs(fs[last.input_path].body)

PkgToPkgDone ==
    /\ last.result = "ok"
    /\ Lower(Suffix(last.input_path.name)) = <<".">> \o DOCX
    /\ Lower(last.dst_format) = DOCX
    /\ Len(SourceParagraphs) >= 1

\* the output holds one paragraph element per paragraph of P, with P's texts in
\* order, and the package reader gives P back
PkgRoundTrip(P) ==
    LET o == fs[last.out_path]
    IN  /\ o.t = "zip" /\ o.xml = "ok"
        /\ Len(o.body) = Len(P)
        /\ \A i \in DOMAIN P : Concat(o.body[i]) = P[i]
        /\ DocxParagraphs(o.body) = P

\* C10 as stated: a package whose paragraph list is P, |P| >= 1, converted to docx
\* gives a container with exactly the paragraphs of P in order, and reading it
\* back yields P.
C10_PackageRoundTrip ==
    PkgToPkgDone => PkgRoundTrip(SourceParagraphs)

\* C10 as amended: the same, for a P none of whose paragraphs holds two line
\* breaks in a row or a carriage return.
C10_PackageRoundTripPlain ==
    ( /\ PkgToPkgDone
      /\ \A i \in DOMAIN SourceParagraphs :
            /\ Count(SourceParagraphs[i], TwoNL) = 0
            /\ \A j \in DOMAIN SourceParagraphs[i] : SourceParagraphs[i][j] # CR )
    => PkgRoundTrip(SourceParagraphs)

\* two kept paragraphs, one of several runs and one with a line break inside,
\* from a source that also holds an element the reader drops
C10_Witness ==
    /\ PkgToPkgDone
    /\ Len(SourceParagraphs) = 2
    /\ Len(fs[last.input_path].body) = 3
    /\ \E i \in 1..2 : Count(SourceParagraphs[i], <<NL>>) = 1
    /\ \E i \in 1..3 : Len(fs[last.input_path].body[i]) = 2
    /\ PkgRoundTrip(SourceParagraphs)

C11_DomainErrorNoEffect ==
    [][ (last'.n # last.n /\ last'.result \in DomainErrors) =>
          /\ fs' = fs
          /\ last'.out_path # NoPath => ~Exists(fs', last'.out_path)
          /\ log' = log
          /\ logged' = logged ]_vars

\* a logged conversion succeeded, then a package with malformed XML was
\* rejected with logging enabled after its output path was chosen next to an
\* older file of the plain name
C11_Witness ==
    /\ last.n = 2 /\ last.result = "pkg_parse" /\ last.enable_log
    /\ \E i \in DOMAIN last.steps : last.steps[i] = "unique_path"
    /\ Exists(fs, Path(DirD, N_c_txt))
    /\ last.out_path # NoPath /\ last.out_path # Path(DirD, N_c_txt)
    /\ ~Exists(fs, last.out_path)
    /\ Len(logged) = 1 /\ Len(log.rows) = 2

====
